---- MODULE Spec2Model ----
(***************************************************************************)
(* Model of the sweep-and-compress notebooks of                            *)
(* componavt/differential_equations, src/hill_equation:                    *)
(*                                                                         *)
(*   95_save_for_streamlit_unique_x_y.ipynb  lines   1-242  uniqueness     *)
(*                                           filter sweep      ("unique95")*)
(*   the same file,                          lines 243-542  compressing,   *)
(*                                           merging sweep     ("merge97") *)
(*   unnamed/part_000 (96_from_picle_to_Pandas)             merging sweep  *)
(*                                           without compression           *)
(*                                                            ("collect96")*)
(*   98_DOP853.ipynb                         compressing sweep, one method *)
(*                                                           ("compress98")*)
(*   99_DOP853_round3_float32.ipynb          lines   1-330  compressing    *)
(*                                           sweep that rounds  ("round99")*)
(*   93_gamma_correct_y_without_initial_shifts.ipynb        flat sweep     *)
(*                                                             ("flat93")  *)
(*                                                                         *)
(* Floating point values are modelled on an integer grid: a coordinate, a  *)
(* threshold (delta, epsilon) and a time are whole numbers of a unit, and  *)
(* sqrt(a) > d is decided as d < 0 \/ a > d*d, which is what it means for  *)
(* exact reals.  Python indices are 0-based and kept 0-based in `indices`;  *)
(* a TLA+ sequence is 1-based, so x[j] of the code is x[j + 1] here.       *)
(***************************************************************************)
EXTENDS Integers, Sequences, FiniteSets, TLC

VARIABLES
    \* ---- names of the notebooks' global namespace
    t, x, y,            \* the trajectory handed to compress_trajectory
    delta,              \* compression threshold
    indices,            \* result of compress_trajectory
    t_filt, x_filt, y_filt,   \* t[indices], x[indices], y[indices]
    alpha_list, t_eval, \* Cell 1: the alpha grid and the output times
    sol,                \* last value returned by solve_ivp
    unique,             \* flag of the uniqueness scan (unique95)
    records,            \* records (merge97, collect96, compress98,
                        \* round99), entries (unique95), data (flat93)
    saved_signatures,   \* accepted {'x': x, 'y': y} pairs (unique95)
    total_attempts, skipped_due_to_similarity,      \* counters (unique95)
    solution_count, skipped_total, kept_total,      \* counters (97, 98)
    stdout,             \* the lines printed so far
    pickle,             \* solutions.pkl: whether written, and its content
    \* ---- control
    cpc,                \* compressor runs: "idle" | "input" | "compressed"
                        \*  | "filtered" | "indexerror" | "recompressed"
    nb,                 \* the notebook that is run: "none" | "unique95"
                        \*  | "merge97" | "collect96" | "compress98"
                        \*  | "round99" | "flat93"
    spc,                \* "idle" | "cell3" (sweep loop) | "saved" (Cell 4
                        \*  ran) | "aborted" (an exception left Cell 3)
    pos,                \* number of the grid point the loop is at, from 1
    \* ---- environment
    calls,              \* the calls of solve_ivp so far, each with its
                        \* arguments and its outcome
    \* ---- a call of the closure rhs
    rhs_call,           \* t, xy and the alpha, gamma1, gamma2 it is bound to
    rhs_ret,            \* the returned [dxdt, dydt], <<>> before the return
    rhs_done            \* the earlier calls of the closure, each with what
                        \* it returned

cvars == <<t, x, y, delta, indices, t_filt, x_filt, y_filt, cpc>>

svars == <<alpha_list, t_eval, sol, unique, records, saved_signatures, total_attempts,
           skipped_due_to_similarity, solution_count, skipped_total,
           kept_total, stdout, pickle, nb, spc, pos, calls>>

rvars == <<rhs_call, rhs_ret, rhs_done>>

vars == <<cvars, svars, rvars>>

(***************************************************************************)
(* Bounds of the compressor runs.                                          *)
(***************************************************************************)
MaxN == 5        \* longest trajectory
MaxX == 5        \* x samples lie in 0..MaxX
MaxVy == 1       \* y samples drift by 0..MaxVy per sample
MaxDelta == 3    \* delta lies in -1..MaxDelta

(***************************************************************************)
(* compress_trajectory, 98_DOP853.ipynb lines 142-158 (the same text in    *)
(* 95_...ipynb lines 382-398 and 99_...ipynb lines 136-152).               *)
(***************************************************************************)

\* (x[j] - x[i])**2 + (y[j] - y[i])**2
Dist2(xs, ys, i, j) ==
    (xs[j + 1] - xs[i + 1]) * (xs[j + 1] - xs[i + 1])
  + (ys[j + 1] - ys[i + 1]) * (ys[j + 1] - ys[i + 1])

\* a bug: the comparison of line 149 written >=
DistExceedsGe(xs, ys, i, j, d) ==
    d <= 0 \/ Dist2(xs, ys, i, j) >= d * d

\* a bug: the comparison of line 149 written <
DistExceedsLt(xs, ys, i, j, d) ==
    d > 0 /\ Dist2(xs, ys, i, j) < d * d

\* dist = np.sqrt(...); if dist > delta
DistExceeds(xs, ys, i, j, d) ==
    d < 0 \/ Dist2(xs, ys, i, j) > d * d

RECURSIVE InnerScanPrev(_, _, _, _, _, _)
\* a bug: the distance taken from the previous sample, not from sample i
InnerScanPrev(ts, xs, ys, d, i, j) ==
    IF j < Len(ts)
    THEN IF DistExceeds(xs, ys, j - 1, j, d)
         THEN j
         ELSE InnerScanPrev(ts, xs, ys, d, i, j + 1)
    ELSE j

RECURSIVE InnerScanLoop(_, _, _, _, _, _)
\* while j < len(t): ... if dist > delta: break; j += 1      -- the value of
\* j when the loop is left
InnerScanLoop(ts, xs, ys, d, i, j) ==
    IF j < Len(ts)
    THEN IF DistExceeds(xs, ys, i, j, d)
         THEN j
         ELSE InnerScanLoop(ts, xs, ys, d, i, j + 1)
    ELSE j

InnerScan(ts, xs, ys, d, i, j) == InnerScanLoop(ts, xs, ys, d, i, j)

RECURSIVE OuterLoopNoBreak(_, _, _, _, _, _)
\* a bug: `if j >= len(t): break` left out, so that j = len(t) is appended
OuterLoopNoBreak(ts, xs, ys, d, i, ind) ==
    IF i < Len(ts) - 1
    THEN LET j == InnerScan(ts, xs, ys, d, i, i + 1)
         IN  OuterLoopNoBreak(ts, xs, ys, d, j, Append(ind, j))
    ELSE ind

RECURSIVE OuterLoopBreakGt(_, _, _, _, _, _)
\* a bug: the test of line 152 written `if j > len(t): break`
OuterLoopBreakGt(ts, xs, ys, d, i, ind) ==
    IF i < Len(ts) - 1
    THEN LET j == InnerScan(ts, xs, ys, d, i, i + 1)
         IN  IF j > Len(ts)
             THEN ind
             ELSE OuterLoopBreakGt(ts, xs, ys, d, j, Append(ind, j))
    ELSE ind

RECURSIVE OuterLoop(_, _, _, _, _, _)
\* while i < len(t) - 1: j = i + 1; <inner scan>; if j >= len(t): break;
\* indices.append(j); i = j                 -- the value of indices at exit
OuterLoop(ts, xs, ys, d, i, ind) ==
    IF i < Len(ts) - 1
    THEN LET j == InnerScan(ts, xs, ys, d, i, i + 1)
         IN  IF j >= Len(ts)
             THEN ind
             ELSE OuterLoop(ts, xs, ys, d, j, Append(ind, j))
    ELSE ind

\* a bug: the closing append done without the test of line 156
FinishAlways(ts, ind) == Append(ind, Len(ts) - 1)

\* a bug: the closing `if indices[-1] != len(t) - 1: append` left out
FinishNoAppend(ts, ind) == ind

\* if indices[-1] != len(t) - 1: indices.append(len(t) - 1); return indices
Finish(ts, ind) ==
    IF ind[Len(ind)] # Len(ts) - 1 THEN Append(ind, Len(ts) - 1) ELSE ind

RECURSIVE InnerReads(_, _, _, _, _, _)
\* the pairs (i, j) of which line 148 takes x[j], x[i], y[j], y[i] in one
\* run of the inner loop entered with j, in the order of the reads
InnerReads(ts, xs, ys, d, i, j) ==
    IF j < Len(ts)
    THEN IF DistExceeds(xs, ys, i, j, d)
         THEN << <<i, j>> >>
         ELSE << <<i, j>> >> \o InnerReads(ts, xs, ys, d, i, j + 1)
    ELSE <<>>

RECURSIVE OuterReads(_, _, _, _, _)
\* the reads of the whole double loop entered with i
OuterReads(ts, xs, ys, d, i) ==
    IF i < Len(ts) - 1
    THEN LET j == InnerScan(ts, xs, ys, d, i, i + 1)
         IN  InnerReads(ts, xs, ys, d, i, i + 1)
               \o (IF j >= Len(ts) THEN <<>>
                   ELSE OuterReads(ts, xs, ys, d, j))
    ELSE <<>>

compress_trajectory(ts, xs, ys, d) ==
    Finish(ts, OuterLoop(ts, xs, ys, d, 0, <<0>>))

\* numpy's a[indices] for a list of integer indices: a negative index
\* counts from the end, an index outside -len..len-1 raises IndexError
IndexOk(a, ind) ==
    \A k \in 1..Len(ind) : ind[k] >= -Len(a) /\ ind[k] < Len(a)

Take(a, ind) ==
    [k \in 1..Len(ind) |->
        IF ind[k] >= 0 THEN a[ind[k] + 1] ELSE a[Len(a) + ind[k] + 1]]

(***************************************************************************)
(* Runs of the compressor on drawn inputs.  A trajectory is what solve_ivp *)
(* returns for t_eval = 0, 1, ..., n-1: the first sample is the initial    *)
(* state.  x samples are arbitrary in 0..MaxX, y drifts uniformly.         *)
(***************************************************************************)
RECURSIVE SeqsOver(_, _)
SeqsOver(S, n) ==
    IF n = 0 THEN {<<>>}
    ELSE {Append(s, e) : s \in SeqsOver(S, n - 1), e \in S}

Deltas == -1..MaxDelta

TimeGrid(n) == [k \in 1..n |-> k - 1]

XArrays(n) ==
    IF n = 0 THEN {<<>>}
    ELSE {<<0>> \o s : s \in SeqsOver(0..MaxX, n - 1)}

YArray(n, vy) == [k \in 1..n |-> vy * (k - 1)]

\* no notebook is run
SweepIdle ==
    /\ alpha_list = <<>> /\ t_eval = <<>>
    /\ sol = <<>> /\ unique = TRUE /\ records = <<>>
    /\ saved_signatures = <<>>
    /\ total_attempts = 0 /\ skipped_due_to_similarity = 0
    /\ solution_count = 0 /\ skipped_total = 0 /\ kept_total = 0
    /\ stdout = <<>> /\ pickle = [written |-> FALSE, content |-> <<>>]
    /\ nb = "none" /\ spc = "idle" /\ pos = 0 /\ calls = <<>>

\* rhs is not being called
RhsIdle == rhs_call = <<>> /\ rhs_ret = <<>> /\ rhs_done = <<>>

CompressInit ==
    /\ \E n \in 0..MaxN :
         /\ t = TimeGrid(n)
         /\ x \in XArrays(n)
         /\ \E vy \in 0..MaxVy : y = YArray(n, vy)
    /\ delta \in Deltas
    /\ indices = <<>>
    /\ t_filt = <<>> /\ x_filt = <<>> /\ y_filt = <<>>
    /\ cpc = "input"
    /\ SweepIdle
    /\ RhsIdle

\* indices = compress_trajectory(t, x, y, delta)
Compress ==
    /\ cpc = "input"
    /\ indices' = compress_trajectory(t, x, y, delta)
    /\ cpc' = "compressed"
    /\ UNCHANGED <<t, x, y, delta, t_filt, x_filt, y_filt>>
    /\ UNCHANGED svars
    /\ UNCHANGED rvars

\* x_filt = x[indices]; y_filt = y[indices]; t_filt = t[indices]
Filter ==
    /\ cpc = "compressed"
    /\ IF IndexOk(x, indices)
       THEN /\ x_filt' = Take(x, indices)
            /\ y_filt' = Take(y, indices)
            /\ t_filt' = Take(t, indices)
            /\ cpc' = "filtered"
       ELSE /\ cpc' = "indexerror"
            /\ UNCHANGED <<t_filt, x_filt, y_filt>>
    /\ UNCHANGED <<t, x, y, delta, indices>>
    /\ UNCHANGED svars
    /\ UNCHANGED rvars

\* the compressed trajectory compressed again with the same delta
Recompress ==
    /\ cpc = "filtered"
    /\ indices' = compress_trajectory(t_filt, x_filt, y_filt, delta)
    /\ cpc' = "recompressed"
    /\ UNCHANGED <<t, x, y, delta, t_filt, x_filt, y_filt>>
    /\ UNCHANGED svars
    /\ UNCHANGED rvars

CompressNext == Compress \/ Filter \/ Recompress

SpecCompress == CompressInit /\ [][CompressNext]_vars

(***************************************************************************)
(* Properties of compress_trajectory.  FartherThan states "the Euclidean   *)
(* distance between samples i and j exceeds d" on its own, apart from the  *)
(* comparison the code makes.                                              *)
(***************************************************************************)
FartherThan(xs, ys, i, j, d) ==
    d < 0 \/   (xs[j + 1] - xs[i + 1]) * (xs[j + 1] - xs[i + 1])
             + (ys[j + 1] - ys[i + 1]) * (ys[j + 1] - ys[i + 1]) > d * d

StrictlyIncreasing(ind) == \A k \in 1..(Len(ind) - 1) : ind[k] < ind[k + 1]

IsIndexSet(ind, n) ==
    /\ Len(ind) >= 1
    /\ ind[1] = 0
    /\ ind[Len(ind)] = n - 1
    /\ StrictlyIncreasing(ind)
    /\ \A k \in 1..Len(ind) : ind[k] \in 0..(n - 1)

\* C1: for every trajectory of length N >= 1 and every delta the returned
\* index list is non-empty, strictly increasing, starts at 0 and ends at
\* N - 1 (so every index lies in 0..N-1 and none is repeated); this holds of
\* the first call and of the call on the compressed trajectory.
C1_IndexSet ==
    /\ (cpc \in {"compressed", "filtered"} /\ Len(t) >= 1)
          => IsIndexSet(indices, Len(t))
    /\ cpc = "recompressed" => IsIndexSet(indices, Len(t_filt))

\* a run that dropped samples and closed the list with N - 1
C1_Witness ==
    /\ cpc = "compressed"
    /\ Len(t) = MaxN
    /\ Len(indices) = 3
    /\ ~FartherThan(x, y, indices[2], indices[3], delta)

\* the pair (ind[k], ind[k+1]): j is the smallest later index farther than
\* d from i
GreedyPair(xs, ys, i, j, d) ==
    /\ FartherThan(xs, ys, i, j, d)
    /\ \A m \in (i + 1)..(j - 1) : ~FartherThan(xs, ys, i, m, d)

\* C2: every adjacent pair (i, j) of retained indices, except possibly the
\* last pair when N - 1 was appended after the scan (which the code does
\* only when the scan found no sample farther than delta from i), has
\* dist(i, j) > delta and every sample between them within delta of i.
C2_AdjacentPairs ==
    (cpc \in {"compressed", "filtered"} /\ Len(t) >= 1) =>
        \A k \in 1..(Len(indices) - 1) :
            (k < Len(indices) - 1
               \/ FartherThan(x, y, indices[k], indices[k + 1], delta))
            => GreedyPair(x, y, indices[k], indices[k + 1], delta)

\* three retained indices, samples dropped inside the first pair, and the
\* last index appended although it is within delta of its predecessor
C2_Witness ==
    /\ cpc = "compressed"
    /\ Len(indices) = 3
    /\ indices[2] > 1
    /\ delta > 0
    /\ ~FartherThan(x, y, indices[2], indices[3], delta)

\* C3 as stated: for the same trajectory and delta < d2 the number of
\* indices retained under delta is at least the number retained under d2.
C3_MonotonicDelta ==
    cpc = "compressed" =>
        \A d2 \in Deltas :
            delta < d2 => Len(indices) >= Len(compress_trajectory(t, x, y, d2))

\* the trajectory never doubles back: for samples i <= j <= k neither
\* dist(i, j) nor dist(j, k) is larger than dist(i, k)
Outward(xs, ys) ==
    \A i \in 0..(Len(xs) - 1) : \A j \in i..(Len(xs) - 1) :
        \A k \in j..(Len(xs) - 1) :
            /\ (xs[j + 1] - xs[i + 1]) * (xs[j + 1] - xs[i + 1])
                 + (ys[j + 1] - ys[i + 1]) * (ys[j + 1] - ys[i + 1])
               <= (xs[k + 1] - xs[i + 1]) * (xs[k + 1] - xs[i + 1])
                 + (ys[k + 1] - ys[i + 1]) * (ys[k + 1] - ys[i + 1])
            /\ (xs[k + 1] - xs[j + 1]) * (xs[k + 1] - xs[j + 1])
                 + (ys[k + 1] - ys[j + 1]) * (ys[k + 1] - ys[j + 1])
               <= (xs[k + 1] - xs[i + 1]) * (xs[k + 1] - xs[i + 1])
                 + (ys[k + 1] - ys[i + 1]) * (ys[k + 1] - ys[i + 1])

\* C3 amended: the count is monotonic in delta for a trajectory that never
\* doubles back.
C3_MonotonicDeltaOutward ==
    (cpc = "compressed" /\ Outward(x, y)) =>
        \A d2 \in Deltas :
            delta < d2 => Len(indices) >= Len(compress_trajectory(t, x, y, d2))

\* an outward trajectory on which the smaller delta keeps strictly more
C3_Witness ==
    /\ cpc = "compressed"
    /\ Outward(x, y)
    /\ Len(t) = MaxN
    /\ delta > 0
    /\ Len(indices) < Len(t)
    /\ \E d2 \in Deltas :
         /\ delta < d2
         /\ Len(indices) > Len(compress_trajectory(t, x, y, d2))

\* C4: compressing the retained samples again with the same delta retains
\* every one of them: the second index list is 0, 1, ..., m - 1.
C4_Idempotent ==
    cpc = "recompressed" =>
        indices = [k \in 1..Len(t_filt) |-> k - 1]

\* the first pass dropped samples and appended a last sample that is
\* within delta of its predecessor
C4_Witness ==
    /\ cpc = "recompressed"
    /\ Len(t_filt) >= 3
    /\ Len(t_filt) < Len(t)
    /\ ~FartherThan(x_filt, y_filt, Len(t_filt) - 2, Len(t_filt) - 1, delta)

\* C5: with N >= 2 and no sample farther than delta from the first one the
\* result is exactly [0, N - 1].
C5_NearConstant ==
    ( /\ cpc = "compressed"
      /\ Len(t) >= 2
      /\ \A k \in 1..(Len(t) - 1) : ~FartherThan(x, y, 0, k, delta) )
    => indices = <<0, Len(t) - 1>>

\* a trajectory that moves, but never beyond delta of its first sample
C5_Witness ==
    /\ cpc = "compressed"
    /\ Len(t) = MaxN
    /\ delta > 0
    /\ \E k \in 1..(Len(t) - 1) : x[k + 1] # x[1]
    /\ \A k \in 1..(Len(t) - 1) : ~FartherThan(x, y, 0, k, delta)
    /\ indices = <<0, Len(t) - 1>>

(***************************************************************************)
(* The sweeps.  Cell 1 of each notebook sets the configuration; the grids  *)
(* are cut down to a few values.  Units: delta_cfg is the delta = 5e-2 of  *)
(* the compressing notebooks, epsilon the 1e-5 of the uniqueness filter.   *)
(***************************************************************************)
N == 3                    \* samples per trajectory: t_eval = linspace(0, t_end, N)
NumAlpha == 2             \* len(alpha_list)
MaxV == 2                 \* the steepest trajectory solve_ivp returns
epsilon == 3
delta_cfg == 1
ProgressEvery97 == 1049
ProgressEvery98 == 1000

\* t_eval = np.linspace(0, t_end, N), or a Cell 1 edited to a t_eval that
\* does not increase
TEvals == {TimeGrid(N), [k \in 1..N |-> N - k]}
initial_conditions == << <<1, 1>> >>
gamma_1_list == <<0>>
gamma_2_list == <<0>>
\* alpha_list = [1e-9 * (10 ** -i) for i in range(6)], or a Cell 1 edited to
\* a grid that starts at alpha = 0 and goes on below it
AlphaLists == {[i \in 1..NumAlpha |-> i], [i \in 1..NumAlpha |-> 1 - i]}
all_methods == <<"DOP853", "BDF">>
method98 == "DOP853"

Notebooks == {"unique95", "merge97", "collect96", "compress98", "round99",
              "flat93"}

Point(ic, g1, g2, a, m) ==
    [x0 |-> ic[1], y0 |-> ic[2], gamma1 |-> g1, gamma2 |-> g2,
     alpha |-> a, method |-> m]

\* for x0, y0 in initial_conditions: for gamma1 ...: for gamma2 ...: and then
\* either `for alpha ...: for method ...` or `for method ...: for alpha ...`:
\* the grid points in the order the loops visit them
GridOf(methods, alpha_inner) ==
    LET nA == Len(alpha_list)
        nM == Len(methods)
        n2 == Len(gamma_2_list)
        n1 == Len(gamma_1_list)
        nI == Len(initial_conditions)
        inner == IF alpha_inner THEN nA ELSE nM
        outer == IF alpha_inner THEN nM ELSE nA
    IN  [n \in 1..(nI * n1 * n2 * nA * nM) |->
            LET k == n - 1
                e == k % inner
                d == (k \div inner) % outer
                c == (k \div (inner * outer)) % n2
                b == (k \div (inner * outer * n2)) % n1
                a == k \div (inner * outer * n2 * n1)
            IN  Point(initial_conditions[a + 1], gamma_1_list[b + 1],
                      gamma_2_list[c + 1],
                      alpha_list[(IF alpha_inner THEN e ELSE d) + 1],
                      methods[(IF alpha_inner THEN d ELSE e) + 1])]

\* flat93: for alpha ...: for gamma1 ...: for gamma2 ...: for method ...:
\* for x0, y0 in initial_conditions
Grid93 ==
    LET nA == Len(alpha_list)
        nM == Len(all_methods)
        n2 == Len(gamma_2_list)
        n1 == Len(gamma_1_list)
        nI == Len(initial_conditions)
    IN  [n \in 1..(nA * n1 * n2 * nM * nI) |->
            LET k == n - 1
            IN  Point(initial_conditions[(k % nI) + 1],
                      gamma_1_list[((k \div (nI * nM * n2)) % n1) + 1],
                      gamma_2_list[((k \div (nI * nM)) % n2) + 1],
                      alpha_list[(k \div (nI * nM * n2 * n1)) + 1],
                      all_methods[((k \div nI) % nM) + 1])]

Grid ==
    CASE nb = "merge97"    -> GridOf(all_methods, FALSE)
      [] nb \in {"compress98", "round99"} -> GridOf(<<method98>>, FALSE)
      [] nb = "flat93"     -> Grid93
      [] OTHER             -> GridOf(all_methods, TRUE)

(***************************************************************************)
(* solve_ivp, the external integrator: it raises, or returns an object     *)
(* with success False, or returns N samples at t_eval starting at          *)
(* (x0, y0).  The trajectories it can return are uniform drifts.           *)
(***************************************************************************)
Raised == [raised |-> TRUE, success |-> FALSE, t |-> <<>>, y |-> <<<<>>, <<>>>>]

Returned(ok, ts, xs, ys) ==
    [raised |-> FALSE, success |-> ok, t |-> ts, y |-> <<xs, ys>>]

Drift(p, v) ==
    Returned(TRUE, t_eval,
             [k \in 1..N |-> p.x0 + v * (k - 1)],
             [k \in 1..N |-> p.y0 + (v \div 2) * (k - 1)])

Stuck(p) == Returned(FALSE, <<0>>, <<p.x0>>, <<p.y0>>)

\* np.any(np.diff(t_eval) <= 0) of scipy's solve_ivp, which then raises
\* ValueError("Values in `t_eval` are not properly sorted.")
Sorted(ts) == \A k \in 1..(Len(ts) - 1) : ts[k] < ts[k + 1]

\* the trajectories a successful integration returns: the constant one, the
\* slowest drift (within epsilon of the constant one) and the steepest drift
Drifts == {0, 1, MaxV}

\* rhs computes inv_alpha = 1.0 / alpha: ZeroDivisionError at the first
\* evaluation when alpha is 0, raised through solve_ivp
solve_ivp(p) ==
    IF ~Sorted(t_eval) \/ p.alpha = 0
    THEN {Raised}
    ELSE {Raised, Stuck(p)} \cup {Drift(p, v) : v \in Drifts}

Unset == Returned(FALSE, <<>>, <<>>, <<>>)

\* a bug: the result is used whatever its success flag says
sol_success_ignored(out) == TRUE

\* sol.success, as tested by `if sol.success:` and `if not sol.success:`
sol_success(out) == out.success

(***************************************************************************)
(* except Exception as e: print(f"Error: method=..., alpha=..., ...")      *)
(***************************************************************************)
\* flat93: print(f"Error with alpha=..., gamma1=..., gamma2=..., method=...")
ErrorLine(p) ==
    IF nb = "flat93"
    THEN <<"Error with", p.alpha, p.gamma1, p.gamma2, p.method>>
    ELSE <<"Error", p.method, p.alpha, p.gamma1, p.gamma2, p.x0>>

\* a bug: no try/except around the grid point, the exception leaves Cell 3
OnExceptionUncaught(p) ==
    /\ stdout' = stdout
    /\ spc' = "aborted"
    /\ pos' = pos

\* a bug: the handler goes back to the grid point that raised
OnExceptionRetry(p) ==
    /\ stdout' = Append(stdout, ErrorLine(p))
    /\ spc' = spc
    /\ pos' = pos

OnException(p) ==
    /\ stdout' = Append(stdout, ErrorLine(p))
    /\ spc' = spc
    /\ pos' = pos + 1

(***************************************************************************)
(* unique95: 95_...ipynb lines 166-219                                     *)
(***************************************************************************)
RECURSIVE SumSqDiff(_, _, _)
\* np.linalg.norm(a - b) ** 2, summed from sample k on
SumSqDiff(a, b, k) ==
    IF k > Len(a) THEN 0
    ELSE (a[k] - b[k]) * (a[k] - b[k]) + SumSqDiff(a, b, k + 1)

\* np.linalg.norm(a - b) < eps
NormBelow(a, b, eps) == eps > 0 /\ SumSqDiff(a, b, 1) < eps * eps

\* a bug: `or` for the `and` of line 190
SimilarOr(xs, ys, sig) ==
    NormBelow(xs, sig.x, epsilon) \/ NormBelow(ys, sig.y, epsilon)

\* np.linalg.norm(x - sig['x']) < epsilon and np.linalg.norm(y - sig['y']) < epsilon
Similar(xs, ys, sig) ==
    NormBelow(xs, sig.x, epsilon) /\ NormBelow(ys, sig.y, epsilon)

\* a bug: only the signature accepted last is compared
UniqueScanLast(xs, ys, sigs, k) ==
    sigs = <<>> \/ ~Similar(xs, ys, sigs[Len(sigs)])

RECURSIVE UniqueScan(_, _, _, _)
\* unique = True; for sig in saved_signatures: if ...: unique = False; break
UniqueScan(xs, ys, sigs, k) ==
    IF k > Len(sigs) THEN TRUE
    ELSE IF Similar(xs, ys, sigs[k]) THEN FALSE
         ELSE UniqueScan(xs, ys, sigs, k + 1)

\* a bug: the signature of an accepted trajectory is not kept
SaveSignatureNot(sigs, xs, ys) == sigs

\* saved_signatures.append({'x': x, 'y': y})
SaveSignature(sigs, xs, ys) == Append(sigs, [x |-> xs, y |-> ys])

\* entries.append({'alpha': alpha, ..., 't': sol.t, 'x': x, 'y': y})
Entry95(p, ts, xs, ys) ==
    [alpha |-> p.alpha, gamma1 |-> p.gamma1, gamma2 |-> p.gamma2,
     method |-> p.method, x0 |-> p.x0, y0 |-> p.y0,
     t |-> ts, x |-> xs, y |-> ys]

\* a bug: the `continue` of line 195 left out, a rejected trajectory is
\* counted and stored all the same
Store95NoContinue(p, out) ==
    LET u == UniqueScan(out.y[1], out.y[2], saved_signatures, 1)
    IN  /\ x' = out.y[1]
        /\ y' = out.y[2]
        /\ unique' = u
        /\ skipped_due_to_similarity' =
              IF u THEN skipped_due_to_similarity
              ELSE skipped_due_to_similarity + 1
        /\ saved_signatures' =
              SaveSignature(saved_signatures, out.y[1], out.y[2])
        /\ records' = Append(records, Entry95(p, out.t, out.y[1], out.y[2]))

\* lines 184-209: the statements after `if not sol.success: continue`
Store95(p, out) ==
    LET u == UniqueScan(out.y[1], out.y[2], saved_signatures, 1)
    IN  /\ x' = out.y[1]
        /\ y' = out.y[2]
        /\ unique' = u
        /\ IF ~u
           THEN /\ skipped_due_to_similarity' = skipped_due_to_similarity + 1
                /\ UNCHANGED <<saved_signatures, records>>
           ELSE /\ saved_signatures' =
                       SaveSignature(saved_signatures, out.y[1], out.y[2])
                /\ records' = Append(records,
                                     Entry95(p, out.t, out.y[1], out.y[2]))
                /\ UNCHANGED skipped_due_to_similarity

\* a bug: the counter raised inside the try, after solve_ivp has returned
CountAttemptReturned(out) ==
    IF out.raised THEN total_attempts ELSE total_attempts + 1

\* total_attempts += 1, the first statement of the loop body
CountAttempt(out) == total_attempts + 1

Step95 ==
    /\ nb = "unique95" /\ spc = "cell3" /\ pos <= Len(Grid)
    /\ LET p == Grid[pos] IN
       \E out \in solve_ivp(p) :
         /\ calls' = Append(calls, [args |-> p, out |-> out])
         /\ total_attempts' = CountAttempt(out)
         /\ IF out.raised
            THEN /\ OnException(p)
                 /\ UNCHANGED <<sol, x, y, unique, saved_signatures, records,
                                skipped_due_to_similarity>>
            ELSE /\ sol' = out
                 /\ pos' = pos + 1
                 /\ UNCHANGED <<spc, stdout>>
                 /\ IF ~sol_success(out)
                    THEN UNCHANGED <<x, y, unique, saved_signatures, records,
                                     skipped_due_to_similarity>>
                    ELSE Store95(p, out)
    /\ UNCHANGED <<t, delta, indices, t_filt, x_filt, y_filt, cpc, nb, pickle,
                   solution_count, skipped_total, kept_total, alpha_list,
                   t_eval>>
    /\ UNCHANGED rvars

(***************************************************************************)
(* merge97: 95_...ipynb lines 434-520                                      *)
(***************************************************************************)
\* a bug: alpha is left out of the key
KeyOfNoAlpha(r) == <<r.x0, r.y0, r.gamma1, r.gamma2>>

\* key = (x0, y0, gamma1, gamma2, alpha), and the same tuple of a record
KeyOf(r) == <<r.x0, r.y0, r.gamma1, r.gamma2, r.alpha>>

\* a bug: x and y change places in the stored pair
NewRecordSwapped(p, ts, xs, ys) ==
    [x0 |-> p.x0, y0 |-> p.y0, gamma1 |-> p.gamma1, gamma2 |-> p.gamma2,
     alpha |-> p.alpha, t |-> ts, solutions |-> (p.method :> <<ys, xs>>)]

\* {'x0': x0, ..., 'alpha': alpha, 't': t_filt, 'solutions': {method: (x_filt, y_filt)}}
NewRecord(p, ts, xs, ys) ==
    [x0 |-> p.x0, y0 |-> p.y0, gamma1 |-> p.gamma1, gamma2 |-> p.gamma2,
     alpha |-> p.alpha, t |-> ts, solutions |-> (p.method :> <<xs, ys>>)]

RECURSIVE FindKey(_, _, _)
\* for rec in records: if (rec['x0'], ...) == key: ...; break   -- the number
\* of the first record with the key, 0 when the loop ends without a break
FindKey(recs, key, k) ==
    IF k > Len(recs) THEN 0
    ELSE IF KeyOf(recs[k]) = key THEN k
         ELSE FindKey(recs, key, k + 1)

\* a bug: the record is appended without the lookup (as in 98_DOP853)
MergeAlwaysAppend(recs, p, ts, xs, ys) ==
    Append(recs, NewRecord(p, ts, xs, ys))

\* a bug: merging a method also replaces the record's t
MergeResetT(recs, p, ts, xs, ys) ==
    LET i == FindKey(recs, KeyOf(p), 1)
    IN  IF i # 0
        THEN [recs EXCEPT ![i].solutions = (p.method :> <<xs, ys>>) @@ @,
                          ![i].t = ts]
        ELSE Append(recs, NewRecord(p, ts, xs, ys))

\* lines 460-474: rec['solutions'][method] = (x_filt, y_filt), or
\* for ... else: records.append({...})
MergeRecord(recs, p, ts, xs, ys) ==
    LET i == FindKey(recs, KeyOf(p), 1)
    IN  IF i # 0
        THEN [recs EXCEPT ![i].solutions = (p.method :> <<xs, ys>>) @@ @]
        ELSE Append(recs, NewRecord(p, ts, xs, ys))

ProgressLine(p, n, ind) == <<"#", n, p.x0, p.alpha, p.gamma1, p.gamma2,
                             p.method, Len(ind)>>

\* a bug: skipped_total += len(t), the kept points counted as skipped too
CompressStepSkipAll(out) ==
    LET ind == compress_trajectory(out.t, out.y[1], out.y[2], delta)
    IN  /\ x' = out.y[1]
        /\ y' = out.y[2]
        /\ t' = out.t
        /\ indices' = ind
        /\ x_filt' = Take(out.y[1], ind)
        /\ y_filt' = Take(out.y[2], ind)
        /\ t_filt' = Take(out.t, ind)
        /\ kept_total' = kept_total + Len(ind)
        /\ skipped_total' = skipped_total + Len(out.t)

\* the statements of a successful grid point that the compressing notebooks
\* share: lines 449-458 (97), 208-217 (98)
CompressStep(out) ==
    LET ind == compress_trajectory(out.t, out.y[1], out.y[2], delta)
    IN  /\ x' = out.y[1]
        /\ y' = out.y[2]
        /\ t' = out.t
        /\ indices' = ind
        /\ x_filt' = Take(out.y[1], ind)
        /\ y_filt' = Take(out.y[2], ind)
        /\ t_filt' = Take(out.t, ind)
        /\ kept_total' = kept_total + Len(ind)
        /\ skipped_total' = skipped_total + (Len(out.t) - Len(ind))

\* lines 449-479: the statements under `if sol.success:`
Store97(p, out) ==
    /\ CompressStep(out)
    /\ records' = MergeRecord(records, p, t_filt', x_filt', y_filt')
    /\ solution_count' = solution_count + 1
    /\ stdout' = IF (solution_count + 1) % ProgressEvery97 = 0
                 THEN Append(stdout,
                             ProgressLine(p, solution_count + 1, indices'))
                 ELSE stdout

Step97 ==
    /\ nb = "merge97" /\ spc = "cell3" /\ pos <= Len(Grid)
    /\ LET p == Grid[pos] IN
       \E out \in solve_ivp(p) :
         /\ calls' = Append(calls, [args |-> p, out |-> out])
         /\ IF out.raised
            THEN /\ OnException(p)
                 /\ UNCHANGED <<sol, t, x, y, indices, t_filt, x_filt, y_filt,
                                records, solution_count, skipped_total,
                                kept_total>>
            ELSE /\ sol' = out
                 /\ pos' = pos + 1
                 /\ spc' = spc
                 /\ IF sol_success(out)
                    THEN Store97(p, out)
                    ELSE UNCHANGED <<t, x, y, indices, t_filt, x_filt, y_filt,
                                     records, solution_count, skipped_total,
                                     kept_total, stdout>>
    /\ UNCHANGED <<delta, cpc, nb, pickle, unique, saved_signatures,
                   total_attempts, skipped_due_to_similarity, alpha_list,
                   t_eval>>
    /\ UNCHANGED rvars

(***************************************************************************)
(* compress98: 98_DOP853.ipynb lines 194-271                               *)
(***************************************************************************)
\* lines 208-234: the statements under `if sol.success:`
Store98(p, out) ==
    /\ CompressStep(out)
    /\ records' = Append(records, NewRecord(p, t_filt', x_filt', y_filt'))
    /\ solution_count' = solution_count + 1
    /\ stdout' = IF (solution_count + 1) % ProgressEvery98 = 0
                 THEN stdout \o
                      << ProgressLine(p, solution_count + 1, indices'),
                         <<"x:", x_filt', "y:", y_filt'>> >>
                 ELSE stdout

Step98 ==
    /\ nb = "compress98" /\ spc = "cell3" /\ pos <= Len(Grid)
    /\ LET p == Grid[pos] IN
       \E out \in solve_ivp(p) :
         /\ calls' = Append(calls, [args |-> p, out |-> out])
         /\ IF out.raised
            THEN /\ OnException(p)
                 /\ UNCHANGED <<sol, t, x, y, indices, t_filt, x_filt, y_filt,
                                records, solution_count, skipped_total,
                                kept_total>>
            ELSE /\ sol' = out
                 /\ pos' = pos + 1
                 /\ spc' = spc
                 /\ IF sol_success(out)
                    THEN Store98(p, out)
                    ELSE UNCHANGED <<t, x, y, indices, t_filt, x_filt, y_filt,
                                     records, solution_count, skipped_total,
                                     kept_total, stdout>>
    /\ UNCHANGED <<delta, cpc, nb, pickle, unique, saved_signatures,
                   total_attempts, skipped_due_to_similarity, alpha_list,
                   t_eval>>
    /\ UNCHANGED rvars

(***************************************************************************)
(* collect96: unnamed/part_000 lines 165-204                               *)
(***************************************************************************)
RECURSIVE KeyPresent(_, _, _)
\* key in [(r['x0'], r['y0'], r['gamma1'], r['gamma2'], r['alpha']) for r in records]
KeyPresent(recs, key, k) ==
    IF k > Len(recs) THEN FALSE
    ELSE KeyOf(recs[k]) = key \/ KeyPresent(recs, key, k + 1)

\* a bug: the existing record's mapping is replaced, not extended
CollectReplace(recs, p, ts, xs, ys) ==
    IF ~KeyPresent(recs, KeyOf(p), 1)
    THEN Append(recs, NewRecord(p, ts, xs, ys))
    ELSE LET i == FindKey(recs, KeyOf(p), 1)
         IN  [recs EXCEPT ![i].solutions = (p.method :> <<xs, ys>>)]

\* lines 179-195
Collect(recs, p, ts, xs, ys) ==
    IF ~KeyPresent(recs, KeyOf(p), 1)
    THEN Append(recs, NewRecord(p, ts, xs, ys))
    ELSE LET i == FindKey(recs, KeyOf(p), 1)
         IN  [recs EXCEPT ![i].solutions = (p.method :> <<xs, ys>>) @@ @]

\* lines 178-195: the statements under `if sol.success:`
Store96(p, out) ==
    records' = Collect(records, p, out.t, out.y[1], out.y[2])

Step96 ==
    /\ nb = "collect96" /\ spc = "cell3" /\ pos <= Len(Grid)
    /\ LET p == Grid[pos] IN
       \E out \in solve_ivp(p) :
         /\ calls' = Append(calls, [args |-> p, out |-> out])
         /\ IF out.raised
            THEN /\ OnException(p)
                 /\ UNCHANGED <<sol, records>>
            ELSE /\ sol' = out
                 /\ pos' = pos + 1
                 /\ UNCHANGED <<spc, stdout>>
                 /\ IF sol_success(out)
                    THEN Store96(p, out)
                    ELSE UNCHANGED records
    /\ UNCHANGED <<cvars, nb, pickle, unique, saved_signatures, total_attempts,
                   skipped_due_to_similarity, solution_count, skipped_total,
                   kept_total, alpha_list, t_eval>>
    /\ UNCHANGED rvars

(***************************************************************************)
(* round99: 99_DOP853_round3_float32.ipynb lines 188-307                   *)
(***************************************************************************)
MilliPerUnit == 50

\* np.round(a, 3).astype(np.float32): the samples in thousandths.  A sample
\* of the model is a whole number of units of delta = 5e-2, that is of 50
\* thousandths, which rounding to three decimals leaves where it is.
round3_float32(a) == [k \in 1..Len(a) |-> a[k] * MilliPerUnit]

\* {'x0': x0, ..., 'alpha': alpha, 't': t_filt, 'x': x_filt, 'y': y_filt}
Record99(p, ts, xs, ys) ==
    [x0 |-> p.x0, y0 |-> p.y0, gamma1 |-> p.gamma1, gamma2 |-> p.gamma2,
     alpha |-> p.alpha, t |-> ts, x |-> xs, y |-> ys]

\* lines 202-229: the statements under `if sol.success:`
Store99(p, out) ==
    LET ind == compress_trajectory(out.t, out.y[1], out.y[2], delta)
    IN  /\ x' = out.y[1]
        /\ y' = out.y[2]
        /\ t' = out.t
        /\ indices' = ind
        /\ x_filt' = round3_float32(Take(out.y[1], ind))
        /\ y_filt' = round3_float32(Take(out.y[2], ind))
        /\ t_filt' = round3_float32(Take(out.t, ind))
        /\ kept_total' = kept_total + Len(ind)
        /\ skipped_total' = skipped_total + (Len(out.t) - Len(ind))
        /\ records' = Append(records, Record99(p, t_filt', x_filt', y_filt'))
        /\ solution_count' = solution_count + 1
        /\ stdout' = IF (solution_count + 1) % ProgressEvery98 = 0
                     THEN stdout \o
                          << ProgressLine(p, solution_count + 1, ind),
                             <<"x:", x_filt', "y:", y_filt'>> >>
                     ELSE stdout

Step99 ==
    /\ nb = "round99" /\ spc = "cell3" /\ pos <= Len(Grid)
    /\ LET p == Grid[pos] IN
       \E out \in solve_ivp(p) :
         /\ calls' = Append(calls, [args |-> p, out |-> out])
         /\ IF out.raised
            THEN /\ OnException(p)
                 /\ UNCHANGED <<sol, t, x, y, indices, t_filt, x_filt, y_filt,
                                records, solution_count, skipped_total,
                                kept_total>>
            ELSE /\ sol' = out
                 /\ pos' = pos + 1
                 /\ spc' = spc
                 /\ IF sol_success(out)
                    THEN Store99(p, out)
                    ELSE UNCHANGED <<t, x, y, indices, t_filt, x_filt, y_filt,
                                     records, solution_count, skipped_total,
                                     kept_total, stdout>>
    /\ UNCHANGED <<delta, cpc, nb, pickle, unique, saved_signatures,
                   total_attempts, skipped_due_to_similarity, alpha_list,
                   t_eval>>
    /\ UNCHANGED rvars

(***************************************************************************)
(* flat93: 93_gamma_correct_y_without_initial_shifts.ipynb lines 175-205   *)
(***************************************************************************)
\* entry = {'alpha': alpha, ..., 't': sol.t, 'x': sol.y[0], 'y': sol.y[1],
\*          'success': sol.success}
Entry93(p, out) ==
    [alpha |-> p.alpha, gamma1 |-> p.gamma1, gamma2 |-> p.gamma2,
     method |-> p.method, x0 |-> p.x0, y0 |-> p.y0,
     t |-> out.t, x |-> out.y[1], y |-> out.y[2], success |-> out.success]

Store93OnlySuccess(p, out) ==
    records' = IF out.success THEN Append(records, Entry93(p, out))
               ELSE records

\* data.append(entry), on every result solve_ivp returns
Store93(p, out) == records' = Append(records, Entry93(p, out))

Step93 ==
    /\ nb = "flat93" /\ spc = "cell3" /\ pos <= Len(Grid)
    /\ LET p == Grid[pos] IN
       \E out \in solve_ivp(p) :
         /\ calls' = Append(calls, [args |-> p, out |-> out])
         /\ IF out.raised
            THEN /\ OnException(p)
                 /\ UNCHANGED <<sol, records>>
            ELSE /\ sol' = out
                 /\ pos' = pos + 1
                 /\ UNCHANGED <<spc, stdout>>
                 /\ Store93(p, out)
    /\ UNCHANGED <<cvars, nb, pickle, unique, saved_signatures, total_attempts,
                   skipped_due_to_similarity, solution_count, skipped_total,
                   kept_total, alpha_list, t_eval>>
    /\ UNCHANGED rvars

(***************************************************************************)
(* Cell 4: the collection is written and the summary printed.  The         *)
(* percentages divide by total_attempts (unique95) and by                  *)
(* kept_total + skipped_total (merge97, compress98, round99).              *)
(***************************************************************************)
Summary ==
    CASE nb = "unique95" ->
           IF total_attempts = 0
           THEN << <<"Saved", Len(records)>>, <<"Total attempts", 0>>,
                   <<"ZeroDivisionError">> >>
           ELSE << <<"Saved", Len(records)>>,
                   <<"Total attempts", total_attempts>>,
                   <<"Skipped due to similarity", skipped_due_to_similarity>> >>
      [] nb \in {"merge97", "compress98", "round99"} ->
           IF kept_total + skipped_total = 0
           THEN << <<"Saved", Len(records)>>, <<"ZeroDivisionError">> >>
           ELSE << <<"Saved", Len(records)>>,
                   <<"Total filtered points kept", kept_total, skipped_total>> >>
      [] OTHER -> << <<"Saved", Len(records)>> >>

\* a bug: the collection is written while grid points are still to come
Cell4Early ==
    /\ nb \in Notebooks /\ spc = "cell3"
    /\ pickle' = [written |-> TRUE, content |-> records]
    /\ stdout' = stdout \o Summary
    /\ spc' = "saved"
    /\ UNCHANGED <<cvars, sol, unique, records, saved_signatures,
                   total_attempts, skipped_due_to_similarity, solution_count,
                   skipped_total, kept_total, nb, pos, calls, alpha_list,
                   t_eval>>
    /\ UNCHANGED rvars

Cell4 ==
    /\ nb \in Notebooks /\ spc = "cell3" /\ pos > Len(Grid)
    /\ pickle' = [written |-> TRUE, content |-> records]
    /\ stdout' = stdout \o Summary
    /\ spc' = "saved"
    /\ UNCHANGED <<cvars, sol, unique, records, saved_signatures,
                   total_attempts, skipped_due_to_similarity, solution_count,
                   skipped_total, kept_total, nb, pos, calls, alpha_list,
                   t_eval>>
    /\ UNCHANGED rvars

\* The state when Cell 3 has run its first lines.  Cell 1 of collect96 binds
\* neither N nor initial_shifts (both assignments sit inside comment lines,
\* part_000 lines 104 and 112): unless the kernel holds initial_conditions
\* from an earlier run, `for x0, y0 in initial_conditions` raises NameError
\* and the cell ends there.
SweepInit ==
    /\ nb \in Notebooks
    /\ spc \in (IF nb = "collect96" THEN {"cell3", "aborted"} ELSE {"cell3"})
    /\ pos = 1
    /\ alpha_list \in AlphaLists
    /\ t_eval \in TEvals
    /\ records = <<>> /\ saved_signatures = <<>>
    /\ total_attempts = 0 /\ skipped_due_to_similarity = 0
    /\ solution_count = 0 /\ skipped_total = 0 /\ kept_total = 0
    /\ stdout = <<>> /\ pickle = [written |-> FALSE, content |-> <<>>]
    /\ sol = Unset /\ unique = TRUE
    /\ calls = <<>>
    /\ delta = delta_cfg
    /\ t = <<>> /\ x = <<>> /\ y = <<>> /\ indices = <<>>
    /\ t_filt = <<>> /\ x_filt = <<>> /\ y_filt = <<>>
    /\ cpc = "idle"
    /\ RhsIdle

SweepNext ==
    Step95 \/ Step97 \/ Step98 \/ Step96 \/ Step99 \/ Step93 \/ Cell4

SpecSweep == SweepInit /\ [][SweepNext]_vars

\* the kernel runs a cell to its end: a step that can be taken is taken
SpecSweepFair == SpecSweep /\ WF_vars(SweepNext)

(***************************************************************************)
(* Properties of the sweeps                                                *)
(***************************************************************************)
Last(q) == q[Len(q)]

Succeeded(c) == ~c.out.raised /\ c.out.success

ParamsOf(r) == [x0 |-> r.x0, y0 |-> r.y0, gamma1 |-> r.gamma1,
                gamma2 |-> r.gamma2, alpha |-> r.alpha]

\* the successful runs so far, by parameter set
MethodsSucceeded(k) ==
    {calls[i].args.method :
        i \in {j \in 1..Len(calls) :
                 Succeeded(calls[j]) /\ ParamsOf(calls[j].args) = k}}

\* C6: in the merging sweeps no two records carry the same
\* (x0, y0, gamma1, gamma2, alpha), and the record of a parameter set holds
\* one entry for each method that succeeded on it and no other: two
\* successful runs with one tuple and two methods leave one record with two
\* method entries.
C6_MergeOneRecordPerTuple ==
    nb \in {"merge97", "collect96"} =>
        /\ \A i, j \in 1..Len(records) :
              ParamsOf(records[i]) = ParamsOf(records[j]) => i = j
        /\ \A i \in 1..Len(records) :
              DOMAIN records[i].solutions = MethodsSucceeded(ParamsOf(records[i]))
        /\ \A c \in 1..Len(calls) :
              Succeeded(calls[c]) =>
                 \E i \in 1..Len(records) :
                    ParamsOf(records[i]) = ParamsOf(calls[c].args)

C6_Witness ==
    /\ nb = "merge97"
    /\ Len(records) >= 2
    /\ \E i \in 1..Len(records) : Cardinality(DOMAIN records[i].solutions) = 2

RECURSIVE SqNorm(_, _, _)
\* the squared Euclidean distance of the first n samples of a and b
SqNorm(a, b, n) ==
    IF n = 0 THEN 0
    ELSE SqNorm(a, b, n - 1) + (a[n] - b[n]) * (a[n] - b[n])

Within(a, b, eps) == eps > 0 /\ SqNorm(a, b, Len(a)) < eps * eps

SuccessStep95 ==
    /\ nb = "unique95"
    /\ Len(calls') = Len(calls) + 1
    /\ Succeeded(Last(calls'))

\* C7: a successfully integrated trajectory is rejected iff some previously
\* accepted signature is within epsilon of it in x and within epsilon of it in
\* y; otherwise it is appended to the saved signatures and to the entries.
C7_UniquenessDecision ==
    [][SuccessStep95 =>
        LET xs == Last(calls').out.y[1]
            ys == Last(calls').out.y[2]
            near == \E k \in 1..Len(saved_signatures) :
                       /\ Within(xs, saved_signatures[k].x, epsilon)
                       /\ Within(ys, saved_signatures[k].y, epsilon)
        IN  IF near
            THEN /\ unique' = FALSE
                 /\ records' = records
                 /\ saved_signatures' = saved_signatures
                 /\ skipped_due_to_similarity' = skipped_due_to_similarity + 1
            ELSE /\ unique' = TRUE
                 /\ saved_signatures' =
                        Append(saved_signatures, [x |-> xs, y |-> ys])
                 /\ Len(records') = Len(records) + 1
                 /\ \A k \in 1..Len(records) : records'[k] = records[k]
                 /\ Last(records').x = xs /\ Last(records').y = ys
                 /\ Last(records').method = Last(calls').args.method
                 /\ Last(records').alpha = Last(calls').args.alpha
                 /\ skipped_due_to_similarity' = skipped_due_to_similarity
    ]_vars

\* a trajectory was rejected although two signatures, not near each other,
\* had been accepted before it
C7_Witness ==
    /\ nb = "unique95"
    /\ Len(records) >= 2
    /\ skipped_due_to_similarity >= 1
    /\ unique = FALSE
    /\ Succeeded(Last(calls))

\* C8: with epsilon positive, a trajectory whose x and y arrays are identical
\* to those of an earlier successful run of the sweep is rejected as
\* non-unique, and the entries never hold the same (x, y) twice.
C8_SecondPresentationRejected ==
    [][(/\ SuccessStep95
        /\ epsilon > 0
        /\ \E i \in 1..Len(calls) :
              Succeeded(calls[i]) /\ calls[i].out.y = Last(calls').out.y)
       =>
       (/\ unique' = FALSE
        /\ records' = records
        /\ skipped_due_to_similarity' = skipped_due_to_similarity + 1
        /\ \A i, j \in 1..Len(records') :
              (records'[i].x = records'[j].x /\ records'[i].y = records'[j].y)
                 => i = j)
    ]_vars

C8_Witness ==
    /\ nb = "unique95"
    /\ Len(calls) >= 2
    /\ Succeeded(Last(calls))
    /\ \E i \in 1..(Len(calls) - 1) :
          Succeeded(calls[i]) /\ calls[i].out.y = Last(calls).out.y
    /\ unique = FALSE
    /\ Len(records) = 1

\* every grid point has been tried, in the order of the loops
AllTried ==
    /\ Len(calls) = Len(Grid)
    /\ \A i \in 1..Len(calls) : calls[i].args = Grid[i]

\* the written collection holds the result of run c
InCollection(c) ==
    \E i \in 1..Len(pickle.content) :
       /\ ParamsOf(pickle.content[i]) = ParamsOf(c.args)
       /\ CASE nb \in {"unique95", "flat93"} ->
                 pickle.content[i].method = c.args.method
            [] nb = "round99" -> TRUE
            [] OTHER -> c.args.method \in DOMAIN pickle.content[i].solutions

\* C9: a sweep under way, whichever grid points fail (the integrator raises
\* or reports non-success), goes on to every remaining grid point and
\* reaches the save step, and the saved collection holds the result of every
\* successful grid point (in unique95: of every one the filter accepted).
C9_SweepReachesSave ==
    (spc = "cell3") ~>
        (/\ spc = "saved"
         /\ pickle.written
         /\ AllTried
         /\ \A i \in 1..Len(calls) :
               (/\ Succeeded(calls[i])
                /\ nb = "unique95" =>
                     \E k \in 1..Len(records) :
                        /\ records[k].method = calls[i].args.method
                        /\ records[k].alpha = calls[i].args.alpha)
               => InCollection(calls[i]))

C9_Witness ==
    /\ spc = "saved"
    /\ nb \in {"merge97", "compress98"}
    /\ AllTried
    /\ \E i \in 1..Len(calls) : calls[i].out.raised
    /\ \E i \in 1..(Len(calls) - 1) :
          /\ ~calls[i].out.raised /\ ~calls[i].out.success
          /\ Succeeded(calls[i + 1])
    /\ InCollection(Last(calls))

\* a diagnostic with the method and the parameters of run c is on the output
Logged(c) ==
    \E k \in 1..Len(stdout) :
       \/ stdout[k] = <<"Error", c.args.method, c.args.alpha, c.args.gamma1,
                        c.args.gamma2, c.args.x0>>
       \/ stdout[k] = <<"Error with", c.args.alpha, c.args.gamma1,
                        c.args.gamma2, c.args.method>>

\* C10: every failed combination is logged: for each grid point whose
\* integration raised or returned with success false, a diagnostic carrying
\* the method and the parameters has been recorded.
C10_EveryFailureLogged ==
    \A i \in 1..Len(calls) : ~Succeeded(calls[i]) => Logged(calls[i])

\* an integration returned with success false and the sweep went on to save
\* with nothing on the output about it
C10_Witness ==
    /\ spc = "saved"
    /\ \E i \in 1..Len(calls) :
          ~calls[i].out.raised /\ ~calls[i].out.success /\ ~Logged(calls[i])

\* C11: a configuration error (a non-positive alpha in the alpha grid, a
\* t_eval that does not increase) stops the run at sweep start: no grid point
\* is integrated and no collection is written.
C11_ConfigErrorFatal ==
    ((\E i \in 1..Len(alpha_list) : alpha_list[i] <= 0)
        \/ (\E k \in 1..(Len(t_eval) - 1) : t_eval[k] >= t_eval[k + 1]))
    => (calls = <<>> /\ ~pickle.written)

\* with alpha = 0 in the grid and a decreasing t_eval every grid point was
\* handed to the integrator and the collection was written
C11_Witness ==
    /\ \E i \in 1..Len(alpha_list) : alpha_list[i] = 0
    /\ \E k \in 1..(Len(t_eval) - 1) : t_eval[k] >= t_eval[k + 1]
    /\ nb = "merge97"
    /\ Len(calls) = Len(Grid)
    /\ pickle.written

\* C12: in every record of the merging, compressing sweep the time array is
\* shared by the record's solvers: for every method entry, x and y are as
\* long as t and hold the run's samples at the retained indices that t holds.
\* (A time sample of the model is its index: t_eval[k + 1] = k.)
C12_SharedTimeArray ==
    nb = "merge97" =>
      \A i \in 1..Len(records) : \A m \in DOMAIN records[i].solutions :
         LET r == records[i]
             xs == r.solutions[m][1]
             ys == r.solutions[m][2]
         IN  /\ Len(xs) = Len(r.t)
             /\ Len(ys) = Len(r.t)
             /\ \A c \in 1..Len(calls) :
                   (/\ Succeeded(calls[c])
                    /\ ParamsOf(calls[c].args) = ParamsOf(r)
                    /\ calls[c].args.method = m)
                   => \A k \in 1..Len(r.t) :
                         /\ xs[k] = calls[c].out.y[1][r.t[k] + 1]
                         /\ ys[k] = calls[c].out.y[2][r.t[k] + 1]

\* a record whose second method kept more samples than the record's t holds
C12_Witness ==
    /\ nb = "merge97"
    /\ \E i \in 1..Len(records) :
          /\ Cardinality(DOMAIN records[i].solutions) = 2
          /\ \E m \in DOMAIN records[i].solutions :
                Len(records[i].solutions[m][1]) > Len(records[i].t)

(***************************************************************************)
(* The storing statements of Cell 3, run on successful results that arrive *)
(* in any order: the loops of the notebooks nest in different orders, and  *)
(* a grid list may hold a value twice, so that a (parameter set, method)   *)
(* pair comes again.                                                       *)
(***************************************************************************)
MaxPresent == 3           \* results presented in one run

AnyOrderInit ==
    /\ nb \in {"unique95", "merge97", "collect96"}
    /\ spc = "idle" /\ pos = 0
    /\ alpha_list = [i \in 1..NumAlpha |-> i]
    /\ t_eval = TimeGrid(N)
    /\ records = <<>> /\ saved_signatures = <<>>
    /\ total_attempts = 0 /\ skipped_due_to_similarity = 0
    /\ solution_count = 0 /\ skipped_total = 0 /\ kept_total = 0
    /\ stdout = <<>> /\ pickle = [written |-> FALSE, content |-> <<>>]
    /\ sol = Unset /\ unique = TRUE
    /\ calls = <<>>
    /\ delta = delta_cfg
    /\ t = <<>> /\ x = <<>> /\ y = <<>> /\ indices = <<>>
    /\ t_filt = <<>> /\ x_filt = <<>> /\ y_filt = <<>>
    /\ cpc = "idle"
    /\ RhsIdle

\* The merging notebooks store whatever trajectory they are handed, so they
\* are presented the two extreme ones: the constant trajectory, which the
\* compressor cuts to its end points, and the steepest, which it keeps whole.
EndDrifts == {0, MaxV}

\* the grid points in some order, each once
Present95 ==
    /\ nb = "unique95" /\ spc = "idle" /\ Len(calls) < MaxPresent
    /\ \E n \in 1..Len(Grid), v \in 0..MaxV :
         LET p == Grid[n]
             out == Drift(p, v)
         IN  /\ \A c \in 1..Len(calls) : calls[c].args # p
             /\ calls' = Append(calls, [args |-> p, out |-> out])
             /\ total_attempts' = total_attempts + 1
             /\ sol' = out
             /\ Store95(p, out)
    /\ UNCHANGED <<t, delta, indices, t_filt, x_filt, y_filt, cpc, nb, pickle,
                   solution_count, skipped_total, kept_total, alpha_list,
                   t_eval, spc, pos, stdout>>
    /\ UNCHANGED rvars

Present97 ==
    /\ nb = "merge97" /\ spc = "idle" /\ Len(calls) < MaxPresent
    /\ \E n \in 1..Len(Grid), v \in EndDrifts :
         LET p == Grid[n]
             out == Drift(p, v)
         IN  /\ calls' = Append(calls, [args |-> p, out |-> out])
             /\ sol' = out
             /\ Store97(p, out)
    /\ UNCHANGED <<delta, cpc, nb, pickle, unique, saved_signatures,
                   total_attempts, skipped_due_to_similarity, alpha_list,
                   t_eval, spc, pos>>
    /\ UNCHANGED rvars

Present96 ==
    /\ nb = "collect96" /\ spc = "idle" /\ Len(calls) < MaxPresent
    /\ \E n \in 1..Len(Grid), v \in EndDrifts :
         LET p == Grid[n]
             out == Drift(p, v)
         IN  /\ calls' = Append(calls, [args |-> p, out |-> out])
             /\ sol' = out
             /\ Store96(p, out)
    /\ UNCHANGED <<cvars, nb, pickle, unique, saved_signatures, total_attempts,
                   skipped_due_to_similarity, solution_count, skipped_total,
                   kept_total, alpha_list, t_eval, spc, pos, stdout>>
    /\ UNCHANGED rvars

AnyOrderNext == Present95 \/ Present97 \/ Present96

SpecAnyOrder == AnyOrderInit /\ [][AnyOrderNext]_vars

(***************************************************************************)
(* Properties of the merge and of the filter under reordering              *)
(***************************************************************************)
Reverse(q) == [k \in 1..Len(q) |-> q[Len(q) + 1 - k]]

\* what the merging cell of notebook nb does with one successful result
MergeOne(recs, c) ==
    IF nb = "merge97"
    THEN LET ind == compress_trajectory(c.out.t, c.out.y[1], c.out.y[2], delta)
         IN  MergeRecord(recs, c.args, Take(c.out.t, ind),
                         Take(c.out.y[1], ind), Take(c.out.y[2], ind))
    ELSE Collect(recs, c.args, c.out.t, c.out.y[1], c.out.y[2])

RECURSIVE MergeAll(_, _, _)
\* the results cs[k], cs[k + 1], ... merged into recs in that order
MergeAll(cs, k, recs) ==
    IF k > Len(cs) THEN recs
    ELSE MergeAll(cs, k + 1, MergeOne(recs, cs[k]))

\* parameter-set key |-> the Method -> (x, y) mappings stored under it
Mapping(recs) ==
    [k \in {ParamsOf(recs[i]) : i \in 1..Len(recs)} |->
        {recs[i].solutions : i \in {j \in 1..Len(recs) : ParamsOf(recs[j]) = k}}]

\* no (parameter set, method) pair was presented twice
NoRepeat ==
    \A i, j \in 1..Len(calls) : calls[i].args = calls[j].args => i = j

\* the arrays the cell stores for a result
Payload(c) ==
    IF nb = "merge97"
    THEN LET ind == compress_trajectory(c.out.t, c.out.y[1], c.out.y[2], delta)
         IN  <<Take(c.out.y[1], ind), Take(c.out.y[2], ind)>>
    ELSE <<c.out.y[1], c.out.y[2]>>

\* the mapping as a function of the set of results, whatever their order
ResultMap ==
    LET cs == {calls[i] : i \in 1..Len(calls)}
    IN  [k \in {ParamsOf(c.args) : c \in cs} |->
           { [m \in {c.args.method : c \in {d \in cs : ParamsOf(d.args) = k}} |->
                Payload(CHOOSE c \in cs :
                           ParamsOf(c.args) = k /\ c.args.method = m)] }]

FilterOne(st, c) ==
    IF UniqueScan(c.out.y[1], c.out.y[2], st.sigs, 1)
    THEN [sigs |-> SaveSignature(st.sigs, c.out.y[1], c.out.y[2]),
          ents |-> Append(st.ents,
                          Entry95(c.args, c.out.t, c.out.y[1], c.out.y[2]))]
    ELSE st

RECURSIVE FilterAll(_, _, _)
\* the results cs[k], cs[k + 1], ... filtered in that order
FilterAll(cs, k, st) ==
    IF k > Len(cs) THEN st
    ELSE FilterAll(cs, k + 1, FilterOne(st, cs[k]))

Entries(ents) == {ents[i] : i \in 1..Len(ents)}

\* C14 as stated: for the same successfully integrated trajectories another
\* enumeration order (here the reverse) stores the same set of entries, and
\* so the same number of entries.
C14_FilterOrderIndependent ==
    (nb = "unique95" /\ spc = "idle") =>
        LET other == FilterAll(Reverse(calls), 1, [sigs |-> <<>>, ents |-> <<>>])
        IN  /\ Entries(other.ents) = Entries(records)
            /\ Len(other.ents) = Len(records)

\* trajectories i and j are within epsilon of each other in x and in y
Near(i, j) ==
    /\ Within(calls[i].out.y[1], calls[j].out.y[1], epsilon)
    /\ Within(calls[i].out.y[2], calls[j].out.y[2], epsilon)

NearTransitive ==
    \A i, j, k \in 1..Len(calls) : (Near(i, j) /\ Near(j, k)) => Near(i, k)

NearClasses ==
    {{j \in 1..Len(calls) : Near(i, j)} : i \in 1..Len(calls)}

\* C14, for trajectories among which being within epsilon is transitive:
\* every enumeration order stores the same number of entries, one for each
\* class of trajectories within epsilon of one another, and the one stored is
\* a trajectory of the class.
C14_FilterCountOrderIndependent ==
    (nb = "unique95" /\ spc = "idle" /\ NearTransitive) =>
        LET other == FilterAll(Reverse(calls), 1, [sigs |-> <<>>, ents |-> <<>>])
        IN  /\ Len(records) = Cardinality(NearClasses)
            /\ Len(other.ents) = Cardinality(NearClasses)
            /\ \A cl \in NearClasses :
                  /\ \E i \in cl : \E k \in 1..Len(records) :
                        records[k].x = calls[i].out.y[1]
                           /\ records[k].y = calls[i].out.y[2]
                  /\ \E i \in cl : \E k \in 1..Len(other.ents) :
                        other.ents[k].x = calls[i].out.y[1]
                           /\ other.ents[k].y = calls[i].out.y[2]

\* three trajectories in two classes: two entries stored, one rejected
C14_Witness ==
    /\ nb = "unique95" /\ spc = "idle"
    /\ Len(calls) = 3
    /\ NearTransitive
    /\ Cardinality(NearClasses) = 2
    /\ Len(records) = 2
    /\ skipped_due_to_similarity = 1
    /\ calls[1].out # calls[2].out /\ calls[1].out = calls[3].out

\* C15: every persisted record of every sweep variant has the fields x0, y0,
\* gamma1, gamma2, alpha and t, and besides them either a solutions mapping
\* from method name to (x, y) or all four flat fields method, x, y, success.
C15_RecordFields ==
    pickle.written =>
      \A i \in 1..Len(pickle.content) :
         LET fields == DOMAIN pickle.content[i]
         IN  /\ {"x0", "y0", "gamma1", "gamma2", "alpha", "t"} \subseteq fields
             /\ \/ "solutions" \in fields
                \/ {"method", "x", "y", "success"} \subseteq fields

\* an entry of the uniqueness sweep was persisted without a success field
C15_Witness ==
    /\ nb = "unique95"
    /\ pickle.written
    /\ \E i \in 1..Len(pickle.content) :
          DOMAIN pickle.content[i] =
             {"alpha", "gamma1", "gamma2", "method", "x0", "y0", "t", "x", "y"}

(***************************************************************************)
(* get_rhs, 98_DOP853.ipynb lines 171-182 (the same text in the other      *)
(* notebooks).  A float64 of the closure is modelled by its class and, for  *)
(* a finite non-zero value, its decimal exponent e (the value is about     *)
(* 10^e); every value after the first clip is non-negative but for the     *)
(* returned differences.  A logarithm, which the clip at 700 compares with *)
(* a bound, is kept as m / 1000 * 10^p with whole m and p.                 *)
(***************************************************************************)
MaxExpIn == 22            \* inputs x, y: negative, 0, or 10^e, |e| <= MaxExpIn
MaxAlphaExp == 14         \* alpha = 10^-a for a in 0..MaxAlphaExp
MaxCalls == 3             \* calls of one closure

MaxExp10 == 308           \* a float64 above 1.8e308 is inf
MinExp10 == -324          \* a float64 below 4.9e-324 is 0
Ln10Milli == 2303         \* ln(10) = 2.303
Log10eE4 == 4343          \* log10(e) = 0.4343

ClipLo == -20             \* 1e-20
ClipHi == 20              \* 1e20
ExpClip == 700

Fin(e) == [cls |-> "fin", e |-> e]
Zero == [cls |-> "zero", e |-> 0]
Inf == [cls |-> "inf", e |-> 0]
NaN == [cls |-> "nan", e |-> 0]
Neg == [cls |-> "neg", e |-> 0]

\* rounding of a result to float64: overflow to inf, underflow to 0
Norm(e) == IF e > MaxExp10 THEN Inf ELSE IF e < MinExp10 THEN Zero ELSE Fin(e)

Max2(a, b) == IF a >= b THEN a ELSE b

\* u * v
Mul(u, v) ==
    CASE u.cls = "nan" \/ v.cls = "nan" -> NaN
      [] {u.cls, v.cls} = {"inf", "zero"} -> NaN
      [] u.cls = "inf" \/ v.cls = "inf" -> Inf
      [] u.cls = "zero" \/ v.cls = "zero" -> Zero
      [] OTHER -> Norm(u.e + v.e)

\* u + v, for u, v >= 0
Add(u, v) ==
    CASE u.cls = "nan" \/ v.cls = "nan" -> NaN
      [] u.cls = "inf" \/ v.cls = "inf" -> Inf
      [] u.cls = "zero" -> v
      [] v.cls = "zero" -> u
      [] OTHER -> Norm(Max2(u.e, v.e))

\* u / v on numpy floats: x / 0 is inf, 0 / 0 and inf / inf are nan
Div(u, v) ==
    CASE u.cls = "nan" \/ v.cls = "nan" -> NaN
      [] u.cls = "inf" /\ v.cls = "inf" -> NaN
      [] u.cls = "zero" /\ v.cls = "zero" -> NaN
      [] u.cls = "inf" -> Inf
      [] v.cls = "zero" -> Inf
      [] v.cls = "inf" -> Zero
      [] u.cls = "zero" -> Zero
      [] OTHER -> Norm(u.e - v.e)

\* u - v, for u, v >= 0: inf - inf is nan; the exponent of the larger one
\* bounds the difference
Sub(u, v) ==
    CASE u.cls = "nan" \/ v.cls = "nan" -> NaN
      [] u.cls = "inf" /\ v.cls = "inf" -> NaN
      [] u.cls = "inf" \/ v.cls = "inf" -> Inf
      [] u.cls = "zero" -> v
      [] v.cls = "zero" -> u
      [] OTHER -> Fin(Max2(u.e, v.e))

\* a bug: only the upper bound applied, np.minimum(xy[0], 1e20)
clip_state_upper(v) ==
    CASE v.cls \in {"neg", "zero", "nan"} -> v
      [] v.cls = "inf" -> Fin(ClipHi)
      [] OTHER -> IF v.e > ClipHi THEN Fin(ClipHi) ELSE v

\* np.clip(xy[0], 1e-20, 1e20)
clip_state(v) ==
    CASE v.cls \in {"neg", "zero"} -> Fin(ClipLo)
      [] v.cls = "inf" -> Fin(ClipHi)
      [] v.cls = "nan" -> NaN
      [] OTHER -> IF v.e < ClipLo THEN Fin(ClipLo)
                  ELSE IF v.e > ClipHi THEN Fin(ClipHi) ELSE v

\* np.log(x) for x = 10^e: e * ln(10)
np_log(v) == [m |-> v.e * Ln10Milli, p |-> 0]

\* np.log(x) * inv_alpha with inv_alpha = 1.0 / alpha = 10^a
times_inv_alpha(z, a) == [m |-> z.m, p |-> z.p + a]

\* the thousandths of np.clip(z, -bound, bound)
clip_to(z, bound) ==
    LET mag == IF z.m < 0 THEN 0 - z.m ELSE z.m
        sat == mag # 0 /\ (z.p >= 6 \/ mag > (bound * 1000) \div (10 ^ z.p))
    IN  IF sat
        THEN (IF z.m < 0 THEN 0 - bound * 1000 ELSE bound * 1000)
        ELSE IF z.m = 0 THEN 0 ELSE z.m * (10 ^ z.p)

\* a bug: the exponent is let through up to 800, above ln(1.8e308) = 709.78
clip_exponent_wide(z) == clip_to(z, 800)

\* np.clip(..., -700, 700)
clip_exponent(z) == clip_to(z, ExpClip)

\* np.exp(c / 1000) = 10^(c / 1000 * log10(e))
np_exp(c) == Norm(((c \div 10) * Log10eE4) \div 1000000)

\* x ** (1 / alpha), as np.exp(np.clip(np.log(x) * inv_alpha, -700, 700))
power_inv_alpha(v, a) ==
    np_exp(clip_exponent(times_inv_alpha(np_log(v), a)))

b == Fin(0)               \* b = 1.0
K == Fin(0)               \* K = 1.0

\* a bug: a right-hand side that is switched off at t = 0
rhs_timed(tt, xy, a, gamma1, gamma2) ==
    LET xc == clip_state(xy[1])
        yc == clip_state(xy[2])
        x_alpha == power_inv_alpha(xc, a)
        y_alpha == power_inv_alpha(yc, a)
        b_alpha == power_inv_alpha(b, a)
        dxdt == Sub(Div(Mul(K, x_alpha), Add(b_alpha, x_alpha)), Mul(gamma1, xc))
        dydt == Sub(Div(Mul(K, y_alpha), Add(b_alpha, y_alpha)), Mul(gamma2, yc))
    IN  IF tt = 0 THEN <<Zero, Zero>> ELSE <<dxdt, dydt>>

\* rhs(t, xy) of get_rhs(alpha, gamma1, gamma2), alpha = 10^-a
rhs(tt, xy, a, gamma1, gamma2) ==
    LET xc == clip_state(xy[1])
        yc == clip_state(xy[2])
        x_alpha == power_inv_alpha(xc, a)
        y_alpha == power_inv_alpha(yc, a)
        b_alpha == power_inv_alpha(b, a)
        dxdt == Sub(Div(Mul(K, x_alpha), Add(b_alpha, x_alpha)), Mul(gamma1, xc))
        dydt == Sub(Div(Mul(K, y_alpha), Add(b_alpha, y_alpha)), Mul(gamma2, yc))
    IN  <<dxdt, dydt>>

\* the states solve_ivp hands to rhs, and beyond them
StateValues == {Neg, Zero} \cup {Fin(e) : e \in (0 - MaxExpIn)..MaxExpIn}

\* gamma1, gamma2 in [0, 1]
Gammas == {Zero, Fin(-1), Fin(0)}

RhsInit ==
    /\ rhs_call \in [t : 0..1, xy : StateValues \X {Fin(0), Fin(ClipHi)},
                     a : 0..MaxAlphaExp, gamma1 : Gammas, gamma2 : {Fin(0)}]
                \cup
                [t : {0}, xy : {Fin(0)} \X StateValues,
                 a : 0..MaxAlphaExp, gamma1 : {Zero}, gamma2 : Gammas]
    /\ rhs_ret = <<>>
    /\ rhs_done = <<>>
    /\ SweepIdle
    /\ t = <<>> /\ x = <<>> /\ y = <<>> /\ delta = 0 /\ indices = <<>>
    /\ t_filt = <<>> /\ x_filt = <<>> /\ y_filt = <<>> /\ cpc = "idle"

\* return [dxdt, dydt]
RhsEval ==
    /\ rhs_call # <<>> /\ rhs_ret = <<>>
    /\ rhs_ret' = rhs(rhs_call.t, rhs_call.xy, rhs_call.a, rhs_call.gamma1,
                      rhs_call.gamma2)
    /\ UNCHANGED <<rhs_call, rhs_done, cvars, svars>>

\* solve_ivp calls the closure again and again in one integration: at
\* another time, at another state, with alpha, gamma1, gamma2 as bound
NextCalls(c) ==
    {[c EXCEPT !.t = 1 - c.t], [c EXCEPT !.xy = <<c.xy[2], c.xy[1]>>]}

RhsCallAgain ==
    /\ rhs_ret # <<>> /\ Len(rhs_done) < MaxCalls - 1
    /\ rhs_done' = Append(rhs_done, [call |-> rhs_call, ret |-> rhs_ret])
    /\ rhs_call' \in NextCalls(rhs_call)
    /\ rhs_ret' = <<>>
    /\ UNCHANGED <<cvars, svars>>

RhsNext == RhsEval \/ RhsCallAgain

SpecRhs == RhsInit /\ [][RhsNext]_vars

\* a finite float64: neither nan nor inf
IsFinite(v) == v.cls \in {"fin", "zero"}

InClaimRange(v) == v.cls = "fin" /\ v.e >= -20 /\ v.e <= 20

\* C16: for x and y in [1e-20, 1e20], alpha in [1e-14, 1] and gamma1, gamma2
\* in [0, 1], with b = K = 1, both returned derivatives are finite: no nan
\* and no inf, which is also what a division by zero would return.
C16_RhsFinite ==
    (/\ rhs_ret # <<>>
     /\ InClaimRange(rhs_call.xy[1]) /\ InClaimRange(rhs_call.xy[2])
     /\ rhs_call.a <= 14)
    => (IsFinite(rhs_ret[1]) /\ IsFinite(rhs_ret[2]))

\* x = 1e20 with alpha = 1e-14: the exponent 4.6e15 was clipped to 700
C16_Witness ==
    /\ rhs_ret # <<>>
    /\ rhs_call.xy[1] = Fin(20) /\ rhs_call.xy[2] = Fin(20)
    /\ rhs_call.a = 14
    /\ rhs_call.gamma1 = Fin(0)
    /\ IsFinite(rhs_ret[1])

\* a step of the merging, compressing sweep that merged a successful run
MergeStep97 ==
    /\ nb = "merge97"
    /\ Len(calls') = Len(calls) + 1
    /\ Succeeded(Last(calls'))

\* C17: in the merging, compressing sweep a record's t is set when the
\* record is created, to the compressed time samples of the run that creates
\* it; merging a later method into the record leaves its t and its x0, y0,
\* gamma1, gamma2, alpha unchanged, and every other record is unchanged.
C17_MergeFrame ==
    [][MergeStep97 =>
        LET k == ParamsOf(Last(calls').args)
        IN  IF \E i \in 1..Len(records) : ParamsOf(records[i]) = k
            THEN /\ Len(records') = Len(records)
                 /\ \A i \in 1..Len(records) :
                       IF ParamsOf(records[i]) = k
                       THEN /\ records'[i].t = records[i].t
                            /\ ParamsOf(records'[i]) = ParamsOf(records[i])
                       ELSE records'[i] = records[i]
            ELSE /\ Len(records') = Len(records) + 1
                 /\ \A i \in 1..Len(records) : records'[i] = records[i]
                 /\ ParamsOf(Last(records')) = k
                 /\ Last(records').t = t_filt'
                 /\ Len(t_filt') = Len(indices')
                 /\ \A j \in 1..Len(indices') :
                       t_filt'[j] = Last(calls').out.t[indices'[j] + 1]
    ]_vars

\* a second method, whose compressed times differ from the record's, has
\* been merged into the first of two records
C17_Witness ==
    /\ nb = "merge97" /\ spc = "idle"
    /\ Len(records) = 2
    /\ Len(calls) = 3
    /\ ParamsOf(calls[3].args) = ParamsOf(records[1])
    /\ ParamsOf(calls[2].args) = ParamsOf(records[2])
    /\ Cardinality(DOMAIN records[1].solutions) = 2
    /\ \E m \in DOMAIN records[1].solutions :
          Len(records[1].solutions[m][1]) # Len(records[1].t)

\* a step of a merging sweep that merged a successful run
MergeStep ==
    /\ nb \in {"merge97", "collect96"}
    /\ Len(calls') = Len(calls) + 1
    /\ Succeeded(Last(calls'))

\* the (x, y) arrays of the run merged by the step: the returned samples, in
\* the compressing sweep those at the retained indices
RunArrays ==
    LET out == Last(calls').out
    IN  IF nb = "merge97"
        THEN <<[j \in 1..Len(indices') |-> out.y[1][indices'[j] + 1]],
               [j \in 1..Len(indices') |-> out.y[2][indices'[j] + 1]]>>
        ELSE <<out.y[1], out.y[2]>>

\* C18: right after a successful run for (parameter set P, method M) is
\* merged, exactly one record has P and its solutions[M] is that run's (x, y);
\* an entry that M already had is overwritten, and the entries of the other
\* methods of the record are as before.
C18_MergePostcondition ==
    [][MergeStep =>
        LET k == ParamsOf(Last(calls').args)
            m == Last(calls').args.method
            now == {i \in 1..Len(records') : ParamsOf(records'[i]) = k}
            before == {i \in 1..Len(records) : ParamsOf(records[i]) = k}
        IN  /\ Cardinality(now) = 1
            /\ \A i \in now :
                  /\ m \in DOMAIN records'[i].solutions
                  /\ records'[i].solutions[m] = RunArrays
                  /\ IF before = {}
                     THEN DOMAIN records'[i].solutions = {m}
                     ELSE /\ i \in before
                          /\ DOMAIN records'[i].solutions =
                                DOMAIN records[i].solutions \cup {m}
                          /\ \A o \in DOMAIN records[i].solutions \ {m} :
                                records'[i].solutions[o] = records[i].solutions[o]
    ]_vars

\* a method was merged twice for one parameter set, with different
\* trajectories, into a record that holds another method too: the record has
\* the arrays of the later run
C18_Witness ==
    /\ nb \in {"merge97", "collect96"} /\ spc = "idle"
    /\ Len(calls) = 3
    /\ calls[1].args = calls[3].args
    /\ calls[1].out # calls[3].out
    /\ ParamsOf(calls[2].args) = ParamsOf(calls[1].args)
    /\ calls[2].args.method # calls[1].args.method
    /\ Len(records) = 1
    /\ Cardinality(DOMAIN records[1].solutions) = 2
    /\ nb = "collect96" =>
          records[1].solutions[calls[3].args.method] =
             <<calls[3].out.y[1], calls[3].out.y[2]>>

\* C19: at the end of a merging sweep a parameter set has a record iff some
\* method's integration succeeded for it, and the method keys of the record
\* are exactly the methods that succeeded for it.
C19_RecordIffSuccess ==
    (nb \in {"merge97", "collect96"} /\ spc = "saved") =>
       \A g \in 1..Len(Grid) :
          LET k == ParamsOf(Grid[g])
              recs == {i \in 1..Len(pickle.content) :
                          ParamsOf(pickle.content[i]) = k}
          IN  /\ (recs # {}) <=> (MethodsSucceeded(k) # {})
              /\ \A i \in recs :
                    DOMAIN pickle.content[i].solutions = MethodsSucceeded(k)

\* a sweep ended with one parameter set on which every method failed, and
\* one on which one method raised and the other succeeded
C19_Witness ==
    /\ nb \in {"merge97", "collect96"} /\ spc = "saved"
    /\ Len(pickle.content) = 1
    /\ Cardinality(DOMAIN pickle.content[1].solutions) = 1
    /\ \E i \in 1..Len(calls) :
          /\ calls[i].out.raised
          /\ ParamsOf(calls[i].args) = ParamsOf(pickle.content[1])
    /\ \E i \in 1..Len(calls) :
          /\ ~calls[i].out.raised /\ ~calls[i].out.success
          /\ ParamsOf(calls[i].args) # ParamsOf(pickle.content[1])

\* a step of a compressing or merging sweep whose integration failed
FailedStep ==
    /\ nb \in {"merge97", "compress98", "round99", "collect96"}
    /\ Len(calls') = Len(calls) + 1
    /\ ~Succeeded(Last(calls'))

\* C20: in the compressing and merging sweeps a grid point whose integration
\* raises or returns success false leaves the record collection and the
\* counters kept_total, skipped_total and solution_count as they were.
C20_FailureFrame ==
    [][FailedStep =>
        /\ records' = records
        /\ kept_total' = kept_total
        /\ skipped_total' = skipped_total
        /\ solution_count' = solution_count
    ]_vars

\* after a success, one grid point returned success false and one raised
C20_Witness ==
    /\ nb = "merge97"
    /\ Len(calls) = 3
    /\ Succeeded(calls[1])
    /\ ~calls[2].out.raised /\ ~calls[2].out.success
    /\ calls[3].out.raised
    /\ Len(records) = 1
    /\ solution_count = 1
    /\ kept_total + skipped_total = Len(calls[1].out.t)

(***************************************************************************)
(* The flat sweep                                                          *)
(***************************************************************************)
\* the calls so far that returned a result
ReturnedCalls == SelectSeq(calls, LAMBDA c : ~c.out.raised)

RaisedCount == Cardinality({i \in 1..Len(calls) : calls[i].out.raised})

\* C21: in the flat sweep every call of the integrator that returns appends
\* exactly one entry, which carries the parameters of the call and the
\* integrator's success flag, be it true or false; when the sweep is over
\* the number of entries is the size of the grid less the number of calls
\* that raised.
C21_FlatAppendsEveryResult ==
    nb = "flat93" =>
        /\ Len(records) = Len(ReturnedCalls)
        /\ \A i \in 1..Len(records) :
              /\ records[i].success = ReturnedCalls[i].out.success
              /\ records[i].method = ReturnedCalls[i].args.method
              /\ ParamsOf(records[i]) = ParamsOf(ReturnedCalls[i].args)
        /\ pos > Len(Grid) => Len(records) = Len(Grid) - RaisedCount

\* a finished flat sweep with a raise, a success-false and a success-true
C21_Witness ==
    /\ nb = "flat93"
    /\ spc = "saved"
    /\ RaisedCount = 1
    /\ \E i \in 1..Len(records) : ~records[i].success
    /\ \E i \in 1..Len(records) : records[i].success

(***************************************************************************)
(* The grid and the save                                                   *)
(***************************************************************************)
MethodsOf ==
    IF nb \in {"compress98", "round99"} THEN <<method98>> ELSE all_methods

\* initial conditions x gamma1 grid x gamma2 grid x alpha grid x methods
Product ==
    {Point(initial_conditions[i], gamma_1_list[j], gamma_2_list[k],
           alpha_list[a], MethodsOf[m]) :
        i \in 1..Len(initial_conditions), j \in 1..Len(gamma_1_list),
        k \in 1..Len(gamma_2_list), a \in 1..Len(alpha_list),
        m \in 1..Len(MethodsOf)}

\* C22: the integrator is called on points of the Cartesian product only,
\* on no point twice (a failed point is not tried again), one call for each
\* grid point passed, and when the loops are through on every point of the
\* product.
C22_EachGridPointOnce ==
    /\ \A i \in 1..Len(calls) : calls[i].args \in Product
    /\ \A i, j \in 1..Len(calls) : calls[i].args = calls[j].args => i = j
    /\ spc \in {"cell3", "saved"} => Len(calls) = pos - 1
    /\ (spc \in {"cell3", "saved"} /\ pos > Len(Grid)) =>
          /\ Len(calls) = Cardinality(Product)
          /\ {calls[i].args : i \in 1..Len(calls)} = Product

\* a finished sweep over four grid points in which one call raised and one
\* returned success false
C22_Witness ==
    /\ nb = "unique95"
    /\ spc = "saved"
    /\ Len(calls) = 4
    /\ Cardinality(Product) = 4
    /\ \E i \in 1..Len(calls) : calls[i].out.raised
    /\ \E i \in 1..Len(calls) :
          ~calls[i].out.raised /\ ~calls[i].out.success

\* the step that writes the collection
WriteStep == ~pickle.written /\ pickle'.written

\* C23: the collection is written once in a sweep: a sweep under way comes
\* to the write, the write happens when every grid point has been attempted
\* and stores the records as they are then, and after it neither the file
\* nor the records change.
C23_PersistedOnce ==
    /\ [][/\ WriteStep => /\ pos > Len(Grid)
                          /\ AllTried
                          /\ pickle'.content = records
                          /\ records' = records
          /\ ~WriteStep => pickle' = pickle
          /\ pickle.written => records' = records
       ]_vars
    /\ ((spc = "cell3") ~> pickle.written)

\* the file of a finished sweep holds two records, and a grid point failed
C23_Witness ==
    /\ nb = "merge97"
    /\ spc = "saved"
    /\ pickle.written
    /\ Len(pickle.content) = 2
    /\ pickle.content = records
    /\ \E i \in 1..Len(calls) : ~Succeeded(calls[i])

(***************************************************************************)
(* Termination and degenerate inputs of compress_trajectory                *)
(***************************************************************************)
\* the indices the double loop retains, before the closing append
Retained == OuterLoop(t, x, y, delta, 0, <<0>>)

Reads == OuterReads(t, x, y, delta, 0)

\* C24: on every trajectory the retained index i grows with every outer
\* iteration and the scan index j with every read, every read is of samples
\* i < j inside 0..N-1, so that there are at most N - 1 reads, and the scan
\* ends at a retained index from which no later sample is farther than
\* delta, having appended no index beyond N - 1.
C24_Terminates ==
    cpc = "compressed" =>
        LET kept == Retained
            reads == Reads
            n == Len(t)
        IN  /\ StrictlyIncreasing(kept)
            /\ \A k \in 1..Len(reads) :
                  /\ 0 <= reads[k][1]
                  /\ reads[k][1] < reads[k][2]
                  /\ reads[k][2] <= n - 1
            /\ \A k \in 1..(Len(reads) - 1) :
                  /\ reads[k][2] < reads[k + 1][2]
                  /\ reads[k][1] <= reads[k + 1][1]
            /\ Len(reads) <= (IF n = 0 THEN 0 ELSE n - 1)
            /\ \A k \in 2..Len(kept) : kept[k] <= n - 1
            /\ \A j \in (Last(kept) + 1)..(n - 1) :
                  ~FartherThan(x, y, Last(kept), j, delta)

\* the scan retained an index, then ran to the end of the longest
\* trajectory without finding a sample farther than delta
C24_Witness ==
    /\ cpc = "compressed"
    /\ Len(t) = MaxN
    /\ Len(Retained) = 2
    /\ Last(Retained) < Len(t) - 2
    /\ Len(Reads) = Len(t) - 1
    /\ indices = Append(Retained, Len(t) - 1)

(***************************************************************************)
(* The values inside rhs                                                   *)
(***************************************************************************)
\* what rhs hands to np.log: x, y after np.clip, and b
LogArgs ==
    <<clip_state(rhs_call.xy[1]), clip_state(rhs_call.xy[2]), b>>

\* what rhs hands to np.exp, in thousandths
ExpArgs ==
    [k \in 1..3 |->
        clip_exponent(times_inv_alpha(np_log(LogArgs[k]), rhs_call.a))]

\* b_alpha + x_alpha and b_alpha + y_alpha
Denominators ==
    [k \in 1..2 |->
        Add(power_inv_alpha(b, rhs_call.a),
            power_inv_alpha(LogArgs[k], rhs_call.a))]

Completed ==
    rhs_done \o (IF rhs_ret # <<>>
                 THEN <<[call |-> rhs_call, ret |-> rhs_ret]>>
                 ELSE <<>>)

SameInputs(c, d) ==
    /\ c.xy = d.xy /\ c.a = d.a
    /\ c.gamma1 = d.gamma1 /\ c.gamma2 = d.gamma2

RejectStep == SuccessStep95 /\ unique' = FALSE

\* C27: in the filtering sweep entries and saved_signatures have the same
\* length, the k-th signature is the x and y of the k-th entry, and no two
\* accepted signatures are within epsilon of each other both in x and in y;
\* a rejected trajectory leaves both lists as they were and raises
\* skipped_due_to_similarity by one.
C27_FilterInvariant ==
    /\ [](nb = "unique95" =>
            /\ Len(records) = Len(saved_signatures)
            /\ \A k \in 1..Len(records) :
                  /\ saved_signatures[k].x = records[k].x
                  /\ saved_signatures[k].y = records[k].y
            /\ \A i, j \in 1..Len(saved_signatures) :
                  (/\ Within(saved_signatures[i].x, saved_signatures[j].x,
                             epsilon)
                   /\ Within(saved_signatures[i].y, saved_signatures[j].y,
                             epsilon))
                  => i = j)
    /\ [][RejectStep =>
            /\ records' = records
            /\ saved_signatures' = saved_signatures
            /\ skipped_due_to_similarity' = skipped_due_to_similarity + 1
       ]_vars

\* two trajectories were accepted and two rejected
C27_Witness ==
    /\ nb = "unique95"
    /\ Len(saved_signatures) = 2
    /\ Len(records) = 2
    /\ skipped_due_to_similarity = 2
    /\ unique = FALSE
    /\ records[1].x # records[2].x

RECURSIVE SamplesOfSuccesses(_)
\* the samples of the successful runs among the first k calls, added up
SamplesOfSuccesses(k) ==
    IF k = 0 THEN 0
    ELSE SamplesOfSuccesses(k - 1)
           + (IF Succeeded(calls[k]) THEN Len(calls[k].out.t) ELSE 0)

SuccessCount == Cardinality({i \in 1..Len(calls) : Succeeded(calls[i])})

\* C28: in the compressing sweeps, after every grid point, solution_count is
\* the number of successful runs, kept_total + skipped_total is the number
\* of samples of all successful runs so far, which is N times
\* solution_count as every successful run has N samples, neither counter is
\* negative, and with N >= 2 kept_total is at least twice solution_count.
C28_PointAccounting ==
    nb \in {"merge97", "compress98", "round99"} =>
        /\ solution_count = SuccessCount
        /\ kept_total + skipped_total = SamplesOfSuccesses(Len(calls))
        /\ kept_total + skipped_total = N * solution_count
        /\ kept_total >= 0 /\ skipped_total >= 0
        /\ N >= 2 => kept_total >= 2 * solution_count

\* two successes, one that kept all its samples and one that lost some, and
\* a failure
C28_Witness ==
    /\ nb = "merge97"
    /\ solution_count = 2
    /\ Len(calls) = 3
    /\ skipped_total > 0
    /\ kept_total > 2 * solution_count
    /\ kept_total + skipped_total = 2 * N

FailCount == Cardinality({i \in 1..Len(calls) : ~Succeeded(calls[i])})

\* C29: in the filtering sweep total_attempts counts the grid points passed,
\* the size of the grid when the sweep is over, and equals the number of
\* entries plus skipped_due_to_similarity plus the number of grid points
\* whose integration raised or returned success false; such a grid point
\* raises total_attempts and leaves skipped_due_to_similarity as it was.
C29_AttemptAccounting ==
    /\ [](nb = "unique95" =>
            /\ total_attempts = Len(calls)
            /\ total_attempts =
                  Len(records) + skipped_due_to_similarity + FailCount
            /\ spc = "saved" => total_attempts = Len(Grid))
    /\ [][(/\ nb = "unique95"
           /\ Len(calls') = Len(calls) + 1
           /\ ~Succeeded(Last(calls')))
          => /\ total_attempts' = total_attempts + 1
             /\ skipped_due_to_similarity' = skipped_due_to_similarity
       ]_vars

\* a finished sweep of four grid points: one stored, one skipped as similar,
\* one that raised and one that returned success false
C29_Witness ==
    /\ nb = "unique95"
    /\ spc = "saved"
    /\ total_attempts = 4
    /\ Len(records) = 1
    /\ skipped_due_to_similarity = 1
    /\ FailCount = 2
    /\ \E i \in 1..Len(calls) : calls[i].out.raised
    /\ \E i \in 1..Len(calls) :
          ~calls[i].out.raised /\ ~calls[i].out.success

\* C30: of a trajectory of one sample compress_trajectory returns [0], the
\* index 0 once; of an empty trajectory it returns [0, -1], which does not
\* increase and of which no index is one of a sample, so that x[indices]
\* raises IndexError.
C30_DegenerateLengths ==
    cpc \in {"compressed", "filtered", "indexerror"} =>
        /\ Len(t) = 1 => indices = <<0>>
        /\ Len(t) = 0 =>
              /\ indices = <<0, -1>>
              /\ ~StrictlyIncreasing(indices)
              /\ \A k \in 1..Len(indices) : indices[k] \notin 0..(Len(t) - 1)
              /\ ~IndexOk(x, indices)
              /\ cpc # "filtered"

\* the empty trajectory compressed, and the indexing that followed failed
C30_Witness ==
    /\ cpc = "indexerror"
    /\ Len(t) = 0
    /\ indices = <<0, -1>>
    /\ x_filt = <<>>

====
